---- MODULE Spec2Model ----
(***************************************************************************)
(* Model of dracclient/client.py: the WSManClient wrapper (readiness gate, *)
(* readiness probe, invoke with return value checking, enumerate).         *)
(*                                                                         *)
(* Every caller (a thread using the client) owns a call stack of frames;   *)
(* a frame holds the function's name, its position and its locals.  The    *)
(* controller behind the transport is nondeterministic: every transport    *)
(* request is answered by any response document, or fails.                 *)
(***************************************************************************)
EXTENDS Integers, Sequences, FiniteSets, TLC

VARIABLES
    callers,            \* the threads that use the client
    ready_retries,      \* self._ready_retries
    ready_retry_delay,  \* self._ready_retry_delay
    stack,              \* per caller: the call stack, innermost frame last
    ret,                \* per caller: outcome handed back by the last ended call
    call,               \* per caller: the arguments of the current top-level call
    log,                \* per caller: transport requests, sleeps and probe
                        \* results of the current top-level call, in order
    lastResp,           \* per caller: the response document last received
    controller,         \* what answers the transport: "any" controller, or
                        \* the "double" that records the jobs it creates
    jobs,               \* the job queue of the controller: job id -> job
    returned            \* the job ids create_config_job(reboot=False) returned

vars == <<callers, ready_retries, ready_retry_delay, stack, ret, call, log,
          lastResp, controller, jobs, returned>>

----------------------------------------------------------------------------
(* Bounds of the model *)

MaxRetries == 3
MaxDelay == 1
MaxMessages == 2

----------------------------------------------------------------------------
(* Python values *)

None == <<>>
Some(v) == <<v>>
PyStr(s) == [str |-> s]
PyList(l) == [list |-> l]
EmptyDict == [x \in {} |-> x]

(* Constants of the program and of its collaborators *)

IDRAC_IS_READY == "LC061"
RET_SUCCESS == "0"
RET_ERROR == "2"
DCIM_LCService == "DCIM_LCService"
DCIM_BIOSService == "DCIM_BIOSService"
DCIM_RAIDService == "DCIM_RAIDService"

(* Exceptions *)

DRACOperationFailed(drac_messages) ==
    [type |-> "DRACOperationFailed", drac_messages |-> drac_messages]
DRACUnexpectedReturnValue(expected_return_value, actual_return_value) ==
    [type |-> "DRACUnexpectedReturnValue",
     expected_return_value |-> expected_return_value,
     actual_return_value |-> actual_return_value]
WSManRequestFailure == [type |-> "WSManRequestFailure"]

(* Outcomes of a call *)

NoRet == [kind |-> "none"]
ReturnNone == [kind |-> "return"]
Return(v) == [kind |-> "return", val |-> v]
ReturnBool(b) == [kind |-> "return", val |-> b, type |-> "bool"]
Raise(e) == [kind |-> "raise", exc |-> e]

----------------------------------------------------------------------------
(* Input domains *)

RetryValues == -1 .. MaxRetries
DelayValues == 0 .. MaxDelay
ReturnValues == {RET_SUCCESS, RET_ERROR, "1"}
MessageTexts == {"Job already submitted", "Busy"}
MessageIDs == {IDRAC_IS_READY, "LC060"}

SeqsUpTo(S, n) == UNION {[1 .. k -> S] : k \in 0 .. n}

(* The response documents of the controller *)
Responses ==
    [ReturnValue : ReturnValues,
     Message : SeqsUpTo(MessageTexts, MaxMessages),
     MessageID : MessageIDs]

NoResp == [absent |-> TRUE]

(* utils.find_xml(doc, item, namespace).text and, with find_all, the texts *)
(* of all the elements found                                              *)
find_xml(doc, item) == doc[item]

SomeSelectors ==
    [SystemCreationClassName |-> "DCIM_ComputerSystem",
     SystemName |-> "DCIM:ComputerSystem",
     CreationClassName |-> "DCIM_BIOSService",
     Name |-> "DCIM:BIOSService"]
SomeProperties == [Target |-> "BIOS.Setup.1-1"]

(* The arguments a caller passes to invoke *)
InvokeTargets ==
    {[resource_uri |-> DCIM_BIOSService, method |-> "CreateTargetedConfigJob",
      selectors |-> Some(SomeSelectors), properties |-> Some(SomeProperties)],
     [resource_uri |-> DCIM_RAIDService, method |-> "DeletePendingConfiguration",
      selectors |-> None, properties |-> None]}
ExpectedValues == {None} \cup {Some(v) : v \in ReturnValues}

----------------------------------------------------------------------------
(* The controller behind the transport *)

MaxJobs == 2

RET_CREATED == "4096"
DCIM_LifecycleJob == "DCIM_LifecycleJob"

JobIds == 1 .. MaxJobs
Targets == {"BIOS.Setup.1-1", "RAID.Integrated.1-1"}

HasJobFor(target) == \E id \in DOMAIN jobs : jobs[id].Target = target

(* The double accepts a config job for a target that has none, records it *)
(* and reports its id; it may also reject the request.                    *)
DoubleCreatesJob(request) ==
    LET target == request.properties.Target
        id == Cardinality(DOMAIN jobs) + 1
        job == [Target |-> target, JobStatus |-> "Scheduled"]
        created == [resp |-> [ReturnValue |-> RET_CREATED, Message |-> <<>>,
                              JobID |-> id],
                    jobs |-> [j \in DOMAIN jobs \cup {id} |->
                                IF j = id THEN job ELSE jobs[j]]]
        rejected == [resp |-> [ReturnValue |-> RET_ERROR,
                               Message |-> <<"Busy">>],
                     jobs |-> jobs]
    IN IF id \in JobIds /\ ~HasJobFor(target)
       THEN {created, rejected}
       ELSE {rejected}

(* The double drops the pending configuration of a target unless a config *)
(* job was submitted for it.                                              *)
DoubleDeletesPending(request) ==
    LET target == request.properties.Target IN
    IF HasJobFor(target)
    THEN {[resp |-> [ReturnValue |-> RET_ERROR,
                     Message |-> <<"Job already submitted">>],
           jobs |-> jobs]}
    ELSE {[resp |-> [ReturnValue |-> rv, Message |-> <<>>], jobs |-> jobs] :
            rv \in {RET_SUCCESS, "1"}}

DoubleReportsStatus ==
    {[resp |-> [ReturnValue |-> RET_SUCCESS, Message |-> <<>>,
                MessageID |-> m],
      jobs |-> jobs] : m \in MessageIDs}

DoubleInvoke(request) ==
    CASE request.method = "CreateTargetedConfigJob" ->
           DoubleCreatesJob(request)
      [] request.method = "DeletePendingConfiguration" ->
           DoubleDeletesPending(request)
      [] OTHER -> DoubleReportsStatus

(* The controller runs its jobs on its own: a scheduled job completes *)
TerminalStatuses == {"Completed", "Failed"}

ControllerRunsJob(id) ==
    /\ controller = "double"
    /\ id \in DOMAIN jobs
    /\ jobs[id].JobStatus = "Scheduled"
    /\ jobs' = [jobs EXCEPT ![id].JobStatus = "Completed"]
    /\ UNCHANGED <<callers, ready_retries, ready_retry_delay, stack, ret, call,
                   log, lastResp, controller, returned>>

JobElement(id) ==
    [InstanceID |-> id, JobStatus |-> jobs[id].JobStatus]

DoubleEnumerate(request) ==
    IF request.resource_uri = DCIM_LifecycleJob
    THEN {[Items |-> {JobElement(id) : id \in
             {j \in DOMAIN jobs : request.filter_query = None
                                    \/ request.filter_query[1] = j}}]}
    ELSE {[Items |-> {}]}

(* What the transport's invoke may hand back for a request *)
InvokeAnswers(request) ==
    IF controller = "double"
    THEN DoubleInvoke(request)
    ELSE {[resp |-> r, jobs |-> jobs] : r \in Responses}

(* What the transport's enumerate may hand back for a request *)
EnumerateAnswers(request) ==
    IF controller = "double" THEN DoubleEnumerate(request) ELSE Responses

----------------------------------------------------------------------------
(* Call stacks *)

Top(s) == s[Len(s)]
Pop(s) == SubSeq(s, 1, Len(s) - 1)
Push(s, f) == Append(s, f)
SetTop(s, f) == [s EXCEPT ![Len(s)] = f]

Running(c, fn, pc) ==
    /\ stack[c] # <<>>
    /\ Top(stack[c]).fn = fn
    /\ Top(stack[c]).pc = pc

(* The frames *)
WaitFrame(retries, retry_delay) ==
    [fn |-> "wait_until_idrac_is_ready", pc |-> "start",
     retries |-> retries, retry_delay |-> retry_delay]
IsReadyFrame == [fn |-> "is_idrac_ready", pc |-> "start"]
InvokeFrame(resource_uri, method, selectors, properties, expected_return_value, wait_for_idrac, check_return_value) ==
    [fn |-> "invoke", pc |-> "start",
     resource_uri |-> resource_uri, method |-> method,
     selectors |-> selectors, properties |-> properties,
     expected_return_value |-> expected_return_value,
     wait_for_idrac |-> wait_for_idrac,
     check_return_value |-> check_return_value]
EnumerateFrame(resource_uri, filter_query, wait_for_idrac) ==
    [fn |-> "enumerate", pc |-> "start",
     resource_uri |-> resource_uri, filter_query |-> filter_query,
     wait_for_idrac |-> wait_for_idrac]

(* A top-level call starts: the history of the previous one is dropped *)
Begin(c, frame, args) ==
    /\ stack[c] = <<>>
    /\ stack' = [stack EXCEPT ![c] = <<frame>>]
    /\ call' = [call EXCEPT ![c] = args]
    /\ ret' = [ret EXCEPT ![c] = NoRet]
    /\ log' = [log EXCEPT ![c] = <<>>]
    /\ lastResp' = [lastResp EXCEPT ![c] = NoResp]
    /\ UNCHANGED <<callers, ready_retries, ready_retry_delay, controller, jobs, returned>>

(* The innermost call ends with an outcome, handed to its caller *)
End(c, outcome) ==
    /\ stack' = [stack EXCEPT ![c] = Pop(stack[c])]
    /\ ret' = [ret EXCEPT ![c] = outcome]

(* The innermost frame moves on *)
Goto(c, frame) ==
    /\ stack' = [stack EXCEPT ![c] = SetTop(stack[c], frame)]

(* The innermost frame calls a function *)
Call(c, frame, callee) ==
    /\ stack' = [stack EXCEPT ![c] = Push(SetTop(stack[c], frame), callee)]

----------------------------------------------------------------------------
(* WSManClient.wait_until_idrac_is_ready *)

CallWait(c, retries, retry_delay) ==
    Begin(c, WaitFrame(retries, retry_delay),
          [op |-> "wait_until_idrac_is_ready",
           retries |-> retries, retry_delay |-> retry_delay])

Default_SessionOnly(value, policy) == policy

Default(value, policy) == IF value = None THEN policy ELSE value[1]

WaitStart(c) ==
    /\ Running(c, "wait_until_idrac_is_ready", "start")
    /\ LET f == Top(stack[c]) IN
         Goto(c, [f EXCEPT !.pc = "loop",
                           !.retries = Default(f.retries, ready_retries),
                           !.retry_delay =
                               Default(f.retry_delay, ready_retry_delay)])
    /\ UNCHANGED <<callers, ready_retries, ready_retry_delay, controller, jobs, returned, ret, call, log,
                   lastResp>>

LoopCond_Inclusive(retries) == retries >= 0

LoopCond(retries) == retries > 0

err_msg == "Timed out waiting for the iDRAC to become ready"

LoopExit_WrongKind(retries) ==
    IF retries = 0
    THEN Raise(DRACUnexpectedReturnValue(RET_SUCCESS, err_msg))
    ELSE ReturnNone

LoopExit(retries) ==
    IF retries = 0
    THEN Raise(DRACOperationFailed(PyStr(err_msg)))
    ELSE ReturnNone

WaitLoop(c) ==
    /\ Running(c, "wait_until_idrac_is_ready", "loop")
    /\ LET f == Top(stack[c]) IN
         IF LoopCond(f.retries)
         THEN /\ Call(c, [f EXCEPT !.pc = "probed"], IsReadyFrame)
              /\ UNCHANGED ret
         ELSE End(c, LoopExit(f.retries))
    /\ UNCHANGED <<callers, ready_retries, ready_retry_delay, controller, jobs, returned, call, log,
                   lastResp>>

GateStep_NoReturn(ready, retries) ==
    LET r == retries - 1 IN
    [pc |-> IF r > 0 THEN "sleep" ELSE "loop", retries |-> r]

GateStep_TrailingSleep(ready, retries) ==
    IF ready
    THEN [pc |-> "return", retries |-> retries]
    ELSE [pc |-> "sleep", retries |-> retries - 1]

GateStep_SkipsAttempt(ready, retries) ==
    IF ready
    THEN [pc |-> "return", retries |-> retries]
    ELSE LET r == retries - 2 IN
         [pc |-> IF r > 0 THEN "sleep" ELSE "loop", retries |-> r]

GateStep(ready, retries) ==
    IF ready
    THEN [pc |-> "return", retries |-> retries]
    ELSE LET r == retries - 1 IN
         [pc |-> IF r > 0 THEN "sleep" ELSE "loop", retries |-> r]

WaitProbed_CountsFailure(c) ==
    /\ Running(c, "wait_until_idrac_is_ready", "probed")
    /\ LET f == Top(stack[c])
           ready == IF ret[c].kind = "raise" THEN FALSE ELSE ret[c].val
           g == GateStep(ready, f.retries)
       IN IF g.pc = "return"
          THEN End(c, ReturnNone)
          ELSE /\ Goto(c, [f EXCEPT !.pc = g.pc, !.retries = g.retries])
               /\ ret' = [ret EXCEPT ![c] = NoRet]
    /\ UNCHANGED <<callers, ready_retries, ready_retry_delay, controller, jobs, returned, call, log,
                   lastResp>>

(* The attempt counter kept in one place for all the calls in progress *)
SharedCount(s) ==
    IF /\ s # <<>>
       /\ s[1].fn = "wait_until_idrac_is_ready"
       /\ s[1].pc # "start"
    THEN [s EXCEPT ![1].retries = @ - 1]
    ELSE s

WaitProbed_SharedCounter(c) ==
    /\ Running(c, "wait_until_idrac_is_ready", "probed")
    /\ LET f == Top(stack[c]) IN
         IF ret[c].kind = "raise"
         THEN End(c, ret[c])
         ELSE LET g == GateStep(ret[c].val, f.retries) IN
              IF g.pc = "return"
              THEN End(c, ReturnNone)
              ELSE /\ stack' = [d \in callers |->
                                 IF d = c
                                 THEN SetTop(stack[c], [f EXCEPT !.pc = g.pc, !.retries = g.retries])
                                 ELSE SharedCount(stack[d])]
                   /\ ret' = [ret EXCEPT ![c] = NoRet]
    /\ UNCHANGED <<callers, ready_retries, ready_retry_delay, controller, jobs, returned, call, log,
                   lastResp>>

WaitProbed(c) ==
    /\ Running(c, "wait_until_idrac_is_ready", "probed")
    /\ LET f == Top(stack[c]) IN
         IF ret[c].kind = "raise"
         THEN End(c, ret[c])
         ELSE LET g == GateStep(ret[c].val, f.retries) IN
              IF g.pc = "return"
              THEN End(c, ReturnNone)
              ELSE /\ Goto(c, [f EXCEPT !.pc = g.pc, !.retries = g.retries])
                   /\ ret' = [ret EXCEPT ![c] = NoRet]
    /\ UNCHANGED <<callers, ready_retries, ready_retry_delay, controller, jobs, returned, call, log,
                   lastResp>>

WaitSleep(c) ==
    /\ Running(c, "wait_until_idrac_is_ready", "sleep")
    /\ LET f == Top(stack[c]) IN
         /\ Goto(c, [f EXCEPT !.pc = "loop"])
         /\ log' = [log EXCEPT ![c] =
                        Append(@, [e |-> "sleep", secs |-> f.retry_delay])]
    /\ UNCHANGED <<callers, ready_retries, ready_retry_delay, controller, jobs, returned, ret, call,
                   lastResp>>

----------------------------------------------------------------------------
(* WSManClient.is_idrac_ready *)

CallIsReady(c) ==
    Begin(c, IsReadyFrame, [op |-> "is_idrac_ready"])

ProbeSelectors ==
    [SystemCreationClassName |-> "DCIM_ComputerSystem",
     SystemName |-> "DCIM:ComputerSystem",
     CreationClassName |-> "DCIM_LCService",
     Name |-> "DCIM:LCService"]

ProbeInvocation_Gated ==
    InvokeFrame(DCIM_LCService, "GetRemoteServicesAPIStatus",
                Some(ProbeSelectors), Some(EmptyDict),
                Some(RET_SUCCESS), TRUE, TRUE)

ProbeInvocation ==
    InvokeFrame(DCIM_LCService, "GetRemoteServicesAPIStatus",
                Some(ProbeSelectors), Some(EmptyDict),
                Some(RET_SUCCESS), FALSE, TRUE)

IsReadyStart(c) ==
    /\ Running(c, "is_idrac_ready", "start")
    /\ Call(c, [Top(stack[c]) EXCEPT !.pc = "invoked"], ProbeInvocation)
    /\ UNCHANGED <<callers, ready_retries, ready_retry_delay, controller, jobs, returned, ret, call, log,
                   lastResp>>

IsReady_Negated(result) == find_xml(result, "MessageID") # IDRAC_IS_READY

IsReady(result) == find_xml(result, "MessageID") = IDRAC_IS_READY

IsReadyInvoked(c) ==
    /\ Running(c, "is_idrac_ready", "invoked")
    /\ IF ret[c].kind = "raise"
       THEN /\ End(c, ret[c])
            /\ UNCHANGED log
       ELSE LET ready == IsReady(ret[c].val) IN
            /\ End(c, ReturnBool(ready))
            /\ log' = [log EXCEPT ![c] =
                           Append(@, [e |-> "ready", val |-> ready])]
    /\ UNCHANGED <<callers, ready_retries, ready_retry_delay, controller, jobs, returned, call, lastResp>>

----------------------------------------------------------------------------
(* WSManClient.invoke *)

CallInvoke(c, target, expected_return_value, wait_for_idrac, check_return_value) ==
    Begin(c, InvokeFrame(target.resource_uri, target.method,
                         target.selectors, target.properties,
                         expected_return_value, wait_for_idrac,
                         check_return_value),
          [op |-> "invoke", resource_uri |-> target.resource_uri,
           method |-> target.method,
           expected_return_value |-> expected_return_value,
           wait_for_idrac |-> wait_for_idrac,
           check_return_value |-> check_return_value])

InvokeStart(c) ==
    /\ Running(c, "invoke", "start")
    /\ LET f == Top(stack[c]) IN
         IF f.wait_for_idrac
         THEN Call(c, [f EXCEPT !.pc = "gated"], WaitFrame(None, None))
         ELSE Goto(c, [f EXCEPT !.pc = "send"])
    /\ UNCHANGED <<callers, ready_retries, ready_retry_delay, controller, jobs, returned, ret, call, log,
                   lastResp>>

InvokeGated_Swallow(c) ==
    /\ Running(c, "invoke", "gated")
    /\ Goto(c, [Top(stack[c]) EXCEPT !.pc = "send"])
    /\ ret' = [ret EXCEPT ![c] = NoRet]
    /\ UNCHANGED <<callers, ready_retries, ready_retry_delay, controller, jobs, returned, call, log,
                   lastResp>>

InvokeGated(c) ==
    /\ Running(c, "invoke", "gated")
    /\ IF ret[c].kind = "raise"
       THEN End(c, ret[c])
       ELSE /\ Goto(c, [Top(stack[c]) EXCEPT !.pc = "send"])
            /\ ret' = [ret EXCEPT ![c] = NoRet]
    /\ UNCHANGED <<callers, ready_retries, ready_retry_delay, controller, jobs, returned, call, log,
                   lastResp>>

CheckReturnValue_ExpectedFirst(resp, expected_return_value, check_return_value) ==
    IF check_return_value
    THEN LET return_value == find_xml(resp, "ReturnValue") IN
         IF /\ expected_return_value # None
            /\ return_value # expected_return_value[1]
         THEN Raise(DRACUnexpectedReturnValue(expected_return_value[1],
                                              return_value))
         ELSE IF return_value = RET_ERROR
              THEN Raise(DRACOperationFailed(
                       PyList(find_xml(resp, "Message"))))
              ELSE Return(resp)
    ELSE Return(resp)

CheckReturnValue_SwappedCodes(resp, expected_return_value, check_return_value) ==
    IF check_return_value
    THEN LET return_value == find_xml(resp, "ReturnValue") IN
         IF return_value = RET_ERROR
         THEN Raise(DRACOperationFailed(PyList(find_xml(resp, "Message"))))
         ELSE IF /\ expected_return_value # None
                 /\ return_value # expected_return_value[1]
              THEN Raise(DRACUnexpectedReturnValue(return_value,
                                                   expected_return_value[1]))
              ELSE Return(resp)
    ELSE Return(resp)

CheckReturnValue_InvertedTest(resp, expected_return_value, check_return_value) ==
    IF check_return_value
    THEN LET return_value == find_xml(resp, "ReturnValue") IN
         IF return_value = RET_ERROR
         THEN Raise(DRACOperationFailed(PyList(find_xml(resp, "Message"))))
         ELSE IF /\ expected_return_value # None
                 /\ return_value = expected_return_value[1]
              THEN Raise(DRACUnexpectedReturnValue(expected_return_value[1],
                                                   return_value))
              ELSE Return(resp)
    ELSE Return(resp)

CheckReturnValue_AlwaysChecks(resp, expected_return_value, check_return_value) ==
    LET return_value == find_xml(resp, "ReturnValue") IN
    IF return_value = RET_ERROR
    THEN Raise(DRACOperationFailed(PyList(find_xml(resp, "Message"))))
    ELSE IF /\ expected_return_value # None
            /\ return_value # expected_return_value[1]
         THEN Raise(DRACUnexpectedReturnValue(expected_return_value[1],
                                              return_value))
         ELSE Return(resp)

CheckReturnValue_ExpectsSuccess(resp, expected_return_value, check_return_value) ==
    IF check_return_value
    THEN LET return_value == find_xml(resp, "ReturnValue")
             expected == Default(expected_return_value, RET_SUCCESS)
         IN IF return_value = RET_ERROR
            THEN Raise(DRACOperationFailed(PyList(find_xml(resp, "Message"))))
            ELSE IF return_value # expected
                 THEN Raise(DRACUnexpectedReturnValue(expected, return_value))
                 ELSE Return(resp)
    ELSE Return(resp)

CheckReturnValue(resp, expected_return_value, check_return_value) ==
    IF check_return_value
    THEN LET return_value == find_xml(resp, "ReturnValue") IN
         IF return_value = RET_ERROR
         THEN Raise(DRACOperationFailed(PyList(find_xml(resp, "Message"))))
         ELSE IF /\ expected_return_value # None
                 /\ return_value # expected_return_value[1]
              THEN Raise(DRACUnexpectedReturnValue(expected_return_value[1],
                                                   return_value))
              ELSE Return(resp)
    ELSE Return(resp)

InvokeSend(c) ==
    /\ Running(c, "invoke", "send")
    /\ LET f == Top(stack[c])
           request == [e |-> "invoke", resource_uri |-> f.resource_uri,
                       method |-> f.method,
                       selectors |-> Default(f.selectors, EmptyDict),
                       properties |-> Default(f.properties, EmptyDict)]
       IN /\ log' = [log EXCEPT ![c] = Append(@, request)]
          /\ \/ /\ End(c, Raise(WSManRequestFailure))
                /\ lastResp' = [lastResp EXCEPT ![c] = NoResp]
                /\ UNCHANGED jobs
             \/ \E a \in InvokeAnswers(request) :
                  /\ End(c, CheckReturnValue(a.resp, f.expected_return_value,
                                             f.check_return_value))
                  /\ lastResp' = [lastResp EXCEPT ![c] = a.resp]
                  /\ jobs' = a.jobs
    /\ UNCHANGED <<callers, ready_retries, ready_retry_delay, controller,
                   returned, call>>

----------------------------------------------------------------------------
(* WSManClient.enumerate *)

CallEnumerate(c, resource_uri, wait_for_idrac) ==
    Begin(c, EnumerateFrame(resource_uri, None, wait_for_idrac),
          [op |-> "enumerate", resource_uri |-> resource_uri,
           wait_for_idrac |-> wait_for_idrac])

EnumerateStart_AlwaysWaits(c) ==
    /\ Running(c, "enumerate", "start")
    /\ Call(c, [Top(stack[c]) EXCEPT !.pc = "gated"], WaitFrame(None, None))
    /\ UNCHANGED <<callers, ready_retries, ready_retry_delay, controller, jobs, returned, ret, call, log,
                   lastResp>>

EnumerateStart(c) ==
    /\ Running(c, "enumerate", "start")
    /\ LET f == Top(stack[c]) IN
         IF f.wait_for_idrac
         THEN Call(c, [f EXCEPT !.pc = "gated"], WaitFrame(None, None))
         ELSE Goto(c, [f EXCEPT !.pc = "send"])
    /\ UNCHANGED <<callers, ready_retries, ready_retry_delay, controller, jobs, returned, ret, call, log,
                   lastResp>>

EnumerateGated(c) ==
    /\ Running(c, "enumerate", "gated")
    /\ IF ret[c].kind = "raise"
       THEN End(c, ret[c])
       ELSE /\ Goto(c, [Top(stack[c]) EXCEPT !.pc = "send"])
            /\ ret' = [ret EXCEPT ![c] = NoRet]
    /\ UNCHANGED <<callers, ready_retries, ready_retry_delay, controller, jobs, returned, call, log,
                   lastResp>>

EnumerateSend(c) ==
    /\ Running(c, "enumerate", "send")
    /\ LET f == Top(stack[c])
           request == [e |-> "enumerate", resource_uri |-> f.resource_uri,
                       filter_query |-> f.filter_query]
       IN /\ log' = [log EXCEPT ![c] = Append(@, request)]
          /\ \/ /\ End(c, Raise(WSManRequestFailure))
                /\ lastResp' = [lastResp EXCEPT ![c] = NoResp]
             \/ \E resp \in EnumerateAnswers(request) :
                  /\ End(c, Return(resp))
                  /\ lastResp' = [lastResp EXCEPT ![c] = resp]
    /\ UNCHANGED <<callers, ready_retries, ready_retry_delay, controller, jobs, returned, call>>

----------------------------------------------------------------------------
(* DRACClient.create_config_job, delete_pending_config, get_job and the    *)
(* JobManagement methods they delegate to                                  *)

Identities ==
    {[resource_uri |-> DCIM_BIOSService,
      cim_creation_class_name |-> "DCIM_BIOSService",
      cim_name |-> "DCIM:BIOSService", target |-> "BIOS.Setup.1-1",
      cim_system_creation_class_name |-> None, cim_system_name |-> None],
     [resource_uri |-> DCIM_RAIDService,
      cim_creation_class_name |-> "DCIM_RAIDService",
      cim_name |-> "DCIM:RAIDService", target |-> "RAID.Integrated.1-1",
      cim_system_creation_class_name |-> Some("DCIM_ComputerSystem"),
      cim_system_name |-> Some("DCIM:ComputerSystem")]}

(* The identity as the method receives it, defaults filled in *)
Received(identity) ==
    [identity EXCEPT
       !.cim_system_creation_class_name = Default(@, "DCIM_ComputerSystem"),
       !.cim_system_name = Default(@, "DCIM:ComputerSystem")]

MethodFrame(fn, args) == [fn |-> fn, pc |-> "start", args |-> args]

CallCreateConfigJob(c, identity, reboot) ==
    Begin(c, MethodFrame("DRACClient.create_config_job",
                         [identity |-> Received(identity), reboot |-> reboot]),
          [op |-> "create_config_job", identity |-> Received(identity),
           reboot |-> reboot])

CallDeletePendingConfig(c, identity) ==
    Begin(c, MethodFrame("DRACClient.delete_pending_config",
                         [identity |-> Received(identity)]),
          [op |-> "delete_pending_config", identity |-> Received(identity)])

CallGetJob(c, job_id) ==
    Begin(c, MethodFrame("DRACClient.get_job", [job_id |-> job_id]),
          [op |-> "get_job", job_id |-> job_id])

(* A DRACClient method hands its arguments to the JobManagement method *)
Delegate(c, fn, callee) ==
    /\ Running(c, fn, "start")
    /\ LET f == Top(stack[c]) IN
         Call(c, [f EXCEPT !.pc = "called"], MethodFrame(callee, f.args))
    /\ UNCHANGED <<callers, ready_retries, ready_retry_delay, controller, jobs,
                   returned, ret, call, log, lastResp>>

DracCreateConfigJob(c) ==
    Delegate(c, "DRACClient.create_config_job",
             "JobManagement.create_config_job")

DracDeletePendingConfig(c) ==
    Delegate(c, "DRACClient.delete_pending_config",
             "JobManagement.delete_pending_config")

DracGetJob(c) ==
    Delegate(c, "DRACClient.get_job", "JobManagement.get_job")

(* return self._job_mgmt.create_config_job(...) *)
CreateConfigJobResult(outcome) == outcome

DracCreateConfigJobReturn(c) ==
    /\ Running(c, "DRACClient.create_config_job", "called")
    /\ LET f == Top(stack[c])
           outcome == CreateConfigJobResult(ret[c])
       IN /\ End(c, outcome)
          /\ returned' = IF outcome.kind = "return" /\ ~f.args.reboot
                         THEN returned \cup {outcome.val}
                         ELSE returned
    /\ UNCHANGED <<callers, ready_retries, ready_retry_delay, controller, jobs,
                   call, log, lastResp>>

(* self._job_mgmt.delete_pending_config(...): nothing is returned *)
DeletePendingConfigResult(outcome) ==
    IF outcome.kind = "raise" THEN outcome ELSE ReturnNone

DracDeletePendingConfigReturn(c) ==
    /\ Running(c, "DRACClient.delete_pending_config", "called")
    /\ End(c, DeletePendingConfigResult(ret[c]))
    /\ UNCHANGED <<callers, ready_retries, ready_retry_delay, controller, jobs,
                   returned, call, log, lastResp>>

(* get_job repeated until the job it finds is finished *)
DracGetJobReturn_Polls(c) ==
    /\ Running(c, "DRACClient.get_job", "called")
    /\ LET f == Top(stack[c]) IN
         IF /\ ret[c].kind = "return"
            /\ ret[c] # ReturnNone
            /\ ret[c].val.status \notin TerminalStatuses
         THEN /\ Call(c, f, MethodFrame("JobManagement.get_job", f.args))
              /\ ret' = [ret EXCEPT ![c] = NoRet]
         ELSE End(c, ret[c])
    /\ UNCHANGED <<callers, ready_retries, ready_retry_delay, controller, jobs,
                   returned, call, log, lastResp>>

GetJobResult_Dropped(outcome) ==
    IF outcome.kind = "raise" THEN outcome ELSE ReturnNone

GetJobResult_RejectsNone(outcome) ==
    IF outcome = ReturnNone
    THEN Raise(DRACOperationFailed(PyList(<<>>)))
    ELSE outcome

(* return self._job_mgmt.get_job(job_id) *)
GetJobResult(outcome) == outcome

DracGetJobReturn(c) ==
    /\ Running(c, "DRACClient.get_job", "called")
    /\ End(c, GetJobResult(ret[c]))
    /\ UNCHANGED <<callers, ready_retries, ready_retry_delay, controller, jobs,
                   returned, call, log, lastResp>>

(* JobManagement: the scoping system of a service defaults to the computer *)
(* system when the caller leaves it out                                    *)
JobDefaults(identity) ==
    [identity EXCEPT
       !.cim_system_creation_class_name = Default(@, "DCIM_ComputerSystem"),
       !.cim_system_name = Default(@, "DCIM:ComputerSystem")]

JobMethodFrame(fn, args) ==
    MethodFrame(fn, [args EXCEPT !.identity = JobDefaults(@)])

(* The selectors name the service in its scoping system *)
IdentitySelectors(identity) ==
    [SystemCreationClassName |-> identity.cim_system_creation_class_name,
     SystemName |-> identity.cim_system_name,
     CreationClassName |-> identity.cim_creation_class_name,
     Name |-> identity.cim_name]

CreateProperties(target, reboot) ==
    IF reboot
    THEN [Target |-> target, ScheduledStartTime |-> "TIME_NOW",
          RebootJobType |-> "3"]
    ELSE [Target |-> target, ScheduledStartTime |-> "TIME_NOW"]

JobCreateConfigJob(c) ==
    /\ Running(c, "JobManagement.create_config_job", "start")
    /\ LET f == Top(stack[c])
           id == f.args.identity
       IN Call(c, [f EXCEPT !.pc = "invoked"],
               InvokeFrame(id.resource_uri, "CreateTargetedConfigJob",
                           Some(IdentitySelectors(id)),
                           Some(CreateProperties(id.target, f.args.reboot)),
                           Some(RET_CREATED), TRUE, TRUE))
    /\ UNCHANGED <<callers, ready_retries, ready_retry_delay, controller, jobs,
                   returned, ret, call, log, lastResp>>

JobCreateConfigJobReturn(c) ==
    /\ Running(c, "JobManagement.create_config_job", "invoked")
    /\ IF ret[c].kind = "raise"
       THEN End(c, ret[c])
       ELSE End(c, Return(ret[c].val.JobID))
    /\ UNCHANGED <<callers, ready_retries, ready_retry_delay, controller, jobs,
                   returned, call, log, lastResp>>

JobDeletePendingConfig(c) ==
    /\ Running(c, "JobManagement.delete_pending_config", "start")
    /\ LET f == Top(stack[c])
           id == f.args.identity
       IN Call(c, [f EXCEPT !.pc = "invoked"],
               InvokeFrame(id.resource_uri, "DeletePendingConfiguration",
                           Some(IdentitySelectors(id)),
                           Some([Target |-> id.target]),
                           Some(RET_SUCCESS), TRUE, TRUE))
    /\ UNCHANGED <<callers, ready_retries, ready_retry_delay, controller, jobs,
                   returned, ret, call, log, lastResp>>

JobDeletePendingConfigReturn(c) ==
    /\ Running(c, "JobManagement.delete_pending_config", "invoked")
    /\ IF ret[c].kind = "raise"
       THEN End(c, ret[c])
       ELSE End(c, ReturnNone)
    /\ UNCHANGED <<callers, ready_retries, ready_retry_delay, controller, jobs,
                   returned, call, log, lastResp>>

JobGetJob(c) ==
    /\ Running(c, "JobManagement.get_job", "start")
    /\ LET f == Top(stack[c]) IN
         Call(c, [f EXCEPT !.pc = "enumerated"],
              EnumerateFrame(DCIM_LifecycleJob, Some(f.args.job_id), TRUE))
    /\ UNCHANGED <<callers, ready_retries, ready_retry_delay, controller, jobs,
                   returned, ret, call, log, lastResp>>

(* The job of the enumerated set that has the identifier, if any *)
Job(element) == [id |-> element.InstanceID, status |-> element.JobStatus]

FindJob(doc, job_id) ==
    LET found == {el \in doc.Items : el.InstanceID = job_id} IN
    IF found = {} THEN ReturnNone ELSE Return(Job(CHOOSE el \in found : TRUE))

JobGetJobReturn(c) ==
    /\ Running(c, "JobManagement.get_job", "enumerated")
    /\ IF ret[c].kind = "raise"
       THEN End(c, ret[c])
       ELSE End(c, FindJob(ret[c].val, Top(stack[c]).args.job_id))
    /\ UNCHANGED <<callers, ready_retries, ready_retry_delay, controller, jobs,
                   returned, call, log, lastResp>>

----------------------------------------------------------------------------
(* DRACClient.commit_pending_*_changes and abandon_pending_*_changes *)

BIOS_DEVICE_FQDD == "BIOS.Setup.1-1"
IDRAC_FQDD == "iDRAC.Embedded.1"
DCIM_iDRACCardService == "DCIM_iDRACCardService"

RaidControllers == {"RAID.Integrated.1-1", "RAID.Slot.1-1"}
IdracFqdds == {None, Some("iDRAC.Slot.1")}

(* The keyword arguments a method passes on; the scoping system is left out *)
Service(resource_uri, cim_creation_class_name, cim_name, target) ==
    [resource_uri |-> resource_uri,
     cim_creation_class_name |-> cim_creation_class_name,
     cim_name |-> cim_name, target |-> target,
     cim_system_creation_class_name |-> None, cim_system_name |-> None]

commit_pending_idrac_changes(idrac_fqdd, reboot) ==
    [identity |-> Service(DCIM_iDRACCardService, "DCIM_iDRACCardService",
                          "DCIM:iDRACCardService", idrac_fqdd),
     reboot |-> reboot]

abandon_pending_idrac_changes(idrac_fqdd) ==
    [identity |-> Service(DCIM_iDRACCardService, "DCIM_iDRACCardService",
                          "DCIM:iDRACCardService", idrac_fqdd)]

commit_pending_bios_changes(reboot) ==
    [identity |-> Service(DCIM_BIOSService, "DCIM_BIOSService",
                          "DCIM:BIOSService", BIOS_DEVICE_FQDD),
     reboot |-> reboot]

abandon_pending_bios_changes ==
    [identity |-> Service(DCIM_BIOSService, "DCIM_BIOSService",
                          "DCIM:BIOSService", BIOS_DEVICE_FQDD)]

commit_pending_raid_changes_DropsReboot(raid_controller, reboot) ==
    [identity |-> Service(DCIM_RAIDService, "DCIM_RAIDService",
                          "DCIM:RAIDService", raid_controller),
     reboot |-> FALSE]

commit_pending_raid_changes(raid_controller, reboot) ==
    [identity |-> Service(DCIM_RAIDService, "DCIM_RAIDService",
                          "DCIM:RAIDService", raid_controller),
     reboot |-> reboot]

abandon_pending_raid_changes(raid_controller) ==
    [identity |-> Service(DCIM_RAIDService, "DCIM_RAIDService",
                          "DCIM:RAIDService", raid_controller)]

CommitMethods ==
    {"commit_pending_idrac_changes", "commit_pending_bios_changes",
     "commit_pending_raid_changes"}
AbandonMethods ==
    {"abandon_pending_idrac_changes", "abandon_pending_bios_changes",
     "abandon_pending_raid_changes"}

(* A call of one of the six methods; args are the arguments as received *)
CallSubsystem(c, method, args) ==
    Begin(c, MethodFrame(method, args), [op |-> method, args |-> args])

CallCommitPendingIdracChanges(c, idrac_fqdd, reboot) ==
    CallSubsystem(c, "commit_pending_idrac_changes",
                  [idrac_fqdd |-> Default(idrac_fqdd, IDRAC_FQDD),
                   reboot |-> reboot])

CallAbandonPendingIdracChanges(c, idrac_fqdd) ==
    CallSubsystem(c, "abandon_pending_idrac_changes",
                  [idrac_fqdd |-> Default(idrac_fqdd, IDRAC_FQDD)])

CallCommitPendingBiosChanges(c, reboot) ==
    CallSubsystem(c, "commit_pending_bios_changes", [reboot |-> reboot])

CallAbandonPendingBiosChanges(c) ==
    CallSubsystem(c, "abandon_pending_bios_changes", EmptyDict)

CallCommitPendingRaidChanges(c, raid_controller, reboot) ==
    CallSubsystem(c, "commit_pending_raid_changes",
                  [raid_controller |-> raid_controller, reboot |-> reboot])

CallAbandonPendingRaidChanges(c, raid_controller) ==
    CallSubsystem(c, "abandon_pending_raid_changes",
                  [raid_controller |-> raid_controller])

(* What the method of frame f passes to JobManagement *)
Forwarded(f) ==
    CASE f.fn = "commit_pending_idrac_changes" ->
           commit_pending_idrac_changes(f.args.idrac_fqdd, f.args.reboot)
      [] f.fn = "abandon_pending_idrac_changes" ->
           abandon_pending_idrac_changes(f.args.idrac_fqdd)
      [] f.fn = "commit_pending_bios_changes" ->
           commit_pending_bios_changes(f.args.reboot)
      [] f.fn = "abandon_pending_bios_changes" ->
           abandon_pending_bios_changes
      [] f.fn = "commit_pending_raid_changes" ->
           commit_pending_raid_changes(f.args.raid_controller, f.args.reboot)
      [] f.fn = "abandon_pending_raid_changes" ->
           abandon_pending_raid_changes(f.args.raid_controller)

(* return self._job_mgmt.create_config_job(resource_uri=..., ...) *)
CommitPendingChanges(c) ==
    /\ stack[c] # <<>>
    /\ Top(stack[c]).fn \in CommitMethods
    /\ LET f == Top(stack[c]) IN
         IF f.pc = "start"
         THEN /\ Call(c, [f EXCEPT !.pc = "called"],
                      JobMethodFrame("JobManagement.create_config_job",
                                     Forwarded(f)))
              /\ UNCHANGED ret
         ELSE End(c, ret[c])
    /\ UNCHANGED <<callers, ready_retries, ready_retry_delay, controller, jobs,
                   returned, call, log, lastResp>>

(* self._job_mgmt.delete_pending_config(resource_uri=..., ...) *)
AbandonPendingChanges(c) ==
    /\ stack[c] # <<>>
    /\ Top(stack[c]).fn \in AbandonMethods
    /\ LET f == Top(stack[c]) IN
         IF f.pc = "start"
         THEN /\ Call(c, [f EXCEPT !.pc = "called"],
                      JobMethodFrame("JobManagement.delete_pending_config",
                                     Forwarded(f)))
              /\ UNCHANGED ret
         ELSE End(c, DeletePendingConfigResult(ret[c]))
    /\ UNCHANGED <<callers, ready_retries, ready_retry_delay, controller, jobs,
                   returned, call, log, lastResp>>

----------------------------------------------------------------------------
(* DRACClient.list_jobs and JobManagement.list_jobs *)

CallListJobs(c, only_unfinished) ==
    Begin(c, MethodFrame("DRACClient.list_jobs",
                         [only_unfinished |-> only_unfinished]),
          [op |-> "list_jobs", only_unfinished |-> only_unfinished])

DracListJobs(c) ==
    Delegate(c, "DRACClient.list_jobs", "JobManagement.list_jobs")

(* return self._job_mgmt.list_jobs(only_unfinished) *)
ListJobsResult(outcome) == outcome

DracListJobsReturn(c) ==
    /\ Running(c, "DRACClient.list_jobs", "called")
    /\ End(c, ListJobsResult(ret[c]))
    /\ UNCHANGED <<callers, ready_retries, ready_retry_delay, controller, jobs,
                   returned, call, log, lastResp>>

JobListJobs(c) ==
    /\ Running(c, "JobManagement.list_jobs", "start")
    /\ Call(c, [Top(stack[c]) EXCEPT !.pc = "enumerated"],
            EnumerateFrame(DCIM_LifecycleJob, None, TRUE))
    /\ UNCHANGED <<callers, ready_retries, ready_retry_delay, controller, jobs,
                   returned, ret, call, log, lastResp>>

(* The jobs of the enumerated set, the finished ones left out on request *)
ListedJobs(doc, only_unfinished) ==
    {Job(el) : el \in {it \in doc.Items :
                         only_unfinished =>
                           it.JobStatus \notin TerminalStatuses}}

JobListJobsReturn(c) ==
    /\ Running(c, "JobManagement.list_jobs", "enumerated")
    /\ IF ret[c].kind = "raise"
       THEN End(c, ret[c])
       ELSE End(c, Return(PyList(ListedJobs(
                     ret[c].val, Top(stack[c]).args.only_unfinished))))
    /\ UNCHANGED <<callers, ready_retries, ready_retry_delay, controller, jobs,
                   returned, call, log, lastResp>>

----------------------------------------------------------------------------
(* The client, used by one thread *)

Init ==
    /\ callers = {1}
    /\ ready_retries \in RetryValues
    /\ ready_retry_delay \in DelayValues
    /\ stack = [c \in callers |-> <<>>]
    /\ ret = [c \in callers |-> NoRet]
    /\ call = [c \in callers |-> [op |-> "none"]]
    /\ log = [c \in callers |-> <<>>]
    /\ lastResp = [c \in callers |-> NoResp]
    /\ controller = "any"
    /\ jobs = EmptyDict
    /\ returned = {}

Next ==
    \/ \E c \in callers, retries \in {None} \cup {Some(n) : n \in RetryValues},
          retry_delay \in {None} \cup {Some(d) : d \in DelayValues} :
          CallWait(c, retries, retry_delay)
    \/ \E c \in callers : WaitStart(c)
    \/ \E c \in callers : WaitLoop(c)
    \/ \E c \in callers : WaitProbed(c)
    \/ \E c \in callers : WaitSleep(c)
    \/ \E c \in callers : CallIsReady(c)
    \/ \E c \in callers : IsReadyStart(c)
    \/ \E c \in callers : IsReadyInvoked(c)
    \/ \E c \in callers, target \in InvokeTargets,
          expected_return_value \in ExpectedValues,
          wait_for_idrac \in BOOLEAN, check_return_value \in BOOLEAN :
          CallInvoke(c, target, expected_return_value, wait_for_idrac,
                     check_return_value)
    \/ \E c \in callers : InvokeStart(c)
    \/ \E c \in callers : InvokeGated(c)
    \/ \E c \in callers : InvokeSend(c)
    \/ \E c \in callers, wait_for_idrac \in BOOLEAN :
          CallEnumerate(c, DCIM_LCService, wait_for_idrac)
    \/ \E c \in callers : EnumerateStart(c)
    \/ \E c \in callers : EnumerateGated(c)
    \/ \E c \in callers : EnumerateSend(c)

Spec == Init /\ [][Next]_vars

(* The calling thread keeps running: a call that has started takes its     *)
(* next step, a sleep ends, and the transport answers or fails.            *)
Step(c) ==
    /\ c \in callers
    /\ \/ WaitStart(c) \/ WaitLoop(c) \/ WaitProbed(c) \/ WaitSleep(c)
       \/ IsReadyStart(c) \/ IsReadyInvoked(c)
       \/ InvokeStart(c) \/ InvokeGated(c) \/ InvokeSend(c)
       \/ EnumerateStart(c) \/ EnumerateGated(c) \/ EnumerateSend(c)

(* Where the calls in progress of c stand; every step of c changes it *)
Position(c) == [i \in 1 .. Len(stack[c]) |-> <<stack[c][i].fn, stack[c][i].pc>>]

LiveSpec == Init /\ [][Next]_vars /\ WF_Position(1)(Step(1))

----------------------------------------------------------------------------
(* One client whose readiness gate is run by two threads at once *)

TwoInit ==
    /\ callers = {1, 2}
    /\ ready_retries = 2
    /\ ready_retry_delay = 0
    /\ stack = [c \in callers |-> <<>>]
    /\ ret = [c \in callers |-> NoRet]
    /\ call = [c \in callers |-> [op |-> "none"]]
    /\ log = [c \in callers |-> <<>>]
    /\ lastResp = [c \in callers |-> NoResp]
    /\ controller = "double"
    /\ jobs = EmptyDict
    /\ returned = {}

TwoNext ==
    \/ \E c \in callers, retries \in {None, Some(1)} :
          CallWait(c, retries, None)
    \/ \E c \in callers : WaitStart(c)
    \/ \E c \in callers : WaitLoop(c)
    \/ \E c \in callers : WaitProbed(c)
    \/ \E c \in callers : WaitSleep(c)
    \/ \E c \in callers : IsReadyStart(c)
    \/ \E c \in callers : IsReadyInvoked(c)
    \/ \E c \in callers : InvokeStart(c)
    \/ \E c \in callers : InvokeSend(c)

TwoSpec == TwoInit /\ [][TwoNext]_vars

----------------------------------------------------------------------------
(* The client in front of the double that records the jobs it creates *)

JobInit ==
    /\ callers = {1}
    /\ ready_retries = 2
    /\ ready_retry_delay = 0
    /\ stack = [c \in callers |-> <<>>]
    /\ ret = [c \in callers |-> NoRet]
    /\ call = [c \in callers |-> [op |-> "none"]]
    /\ log = [c \in callers |-> <<>>]
    /\ lastResp = [c \in callers |-> NoResp]
    /\ controller = "double"
    /\ jobs = EmptyDict
    /\ returned = {}

JobNext ==
    \/ \E c \in callers, identity \in Identities, reboot \in BOOLEAN :
          CallCreateConfigJob(c, identity, reboot)
    \/ \E c \in callers, identity \in Identities :
          CallDeletePendingConfig(c, identity)
    \/ \E c \in callers, job_id \in 1 .. MaxJobs + 1 : CallGetJob(c, job_id)
    \/ \E c \in callers : CallIsReady(c)
    \/ \E c \in callers, idrac_fqdd \in IdracFqdds, reboot \in BOOLEAN :
          CallCommitPendingIdracChanges(c, idrac_fqdd, reboot)
    \/ \E c \in callers, idrac_fqdd \in IdracFqdds :
          CallAbandonPendingIdracChanges(c, idrac_fqdd)
    \/ \E c \in callers, reboot \in BOOLEAN :
          CallCommitPendingBiosChanges(c, reboot)
    \/ \E c \in callers : CallAbandonPendingBiosChanges(c)
    \/ \E c \in callers, raid_controller \in RaidControllers,
          reboot \in BOOLEAN :
          CallCommitPendingRaidChanges(c, raid_controller, reboot)
    \/ \E c \in callers, raid_controller \in RaidControllers :
          CallAbandonPendingRaidChanges(c, raid_controller)
    \/ \E c \in callers : CommitPendingChanges(c)
    \/ \E c \in callers : AbandonPendingChanges(c)
    \/ \E c \in callers, only_unfinished \in BOOLEAN :
          CallListJobs(c, only_unfinished)
    \/ \E c \in callers : DracListJobs(c)
    \/ \E c \in callers : DracListJobsReturn(c)
    \/ \E c \in callers : JobListJobs(c)
    \/ \E c \in callers : JobListJobsReturn(c)
    \/ \E id \in JobIds : ControllerRunsJob(id)
    \/ \E c \in callers : DracCreateConfigJob(c)
    \/ \E c \in callers : DracCreateConfigJobReturn(c)
    \/ \E c \in callers : DracDeletePendingConfig(c)
    \/ \E c \in callers : DracDeletePendingConfigReturn(c)
    \/ \E c \in callers : DracGetJob(c)
    \/ \E c \in callers : DracGetJobReturn(c)
    \/ \E c \in callers : JobCreateConfigJob(c)
    \/ \E c \in callers : JobCreateConfigJobReturn(c)
    \/ \E c \in callers : JobDeletePendingConfig(c)
    \/ \E c \in callers : JobDeletePendingConfigReturn(c)
    \/ \E c \in callers : JobGetJob(c)
    \/ \E c \in callers : JobGetJobReturn(c)
    \/ \E c \in callers : WaitStart(c)
    \/ \E c \in callers : WaitLoop(c)
    \/ \E c \in callers : WaitProbed(c)
    \/ \E c \in callers : WaitSleep(c)
    \/ \E c \in callers : IsReadyStart(c)
    \/ \E c \in callers : IsReadyInvoked(c)
    \/ \E c \in callers : InvokeStart(c)
    \/ \E c \in callers : InvokeGated(c)
    \/ \E c \in callers : InvokeSend(c)
    \/ \E c \in callers : EnumerateStart(c)
    \/ \E c \in callers : EnumerateGated(c)
    \/ \E c \in callers : EnumerateSend(c)

JobSpec == JobInit /\ [][JobNext]_vars

----------------------------------------------------------------------------
(* Reading the history of a call *)

Last(s) == s[Len(s)]
Count(s, P(_)) == Cardinality({i \in 1 .. Len(s) : P(s[i])})

IsProbe(ev) == ev.e = "invoke" /\ ev.method = "GetRemoteServicesAPIStatus"
IsSleep(ev) == ev.e = "sleep"
IsResult(ev) == ev.e = "ready"
IsReadyResult(ev) == ev.e = "ready" /\ ev.val
IsNotReadyResult(ev) == ev.e = "ready" /\ ~ev.val

Probes(c) == Count(log[c], IsProbe)
Sleeps(c) == Count(log[c], IsSleep)
Results(c) == Count(log[c], IsResult)
SawReady(c) == \E i \in 1 .. Len(log[c]) : IsReadyResult(log[c][i])

(* The request of the top-level invoke or enumerate itself *)
IsCommand(c, ev) ==
    \/ call[c].op = "enumerate" /\ ev.e = "enumerate"
    \/ call[c].op = "invoke" /\ ev.e = "invoke" /\ ev.method = call[c].method

Gated(c) ==
    /\ call[c].op \in {"invoke", "enumerate"}
    /\ call[c].wait_for_idrac

TimedOut == Raise(DRACOperationFailed(PyStr(err_msg)))

(* The readiness gate of c's call has just ended: ret[c] is its outcome   *)
(* and log[c] is its history.                                             *)
GateDirect(c) ==
    /\ stack[c] = <<>>
    /\ call[c].op = "wait_until_idrac_is_ready"
    /\ ret[c].kind # "none"
GateNested(c) ==
    /\ stack[c] # <<>>
    /\ Top(stack[c]).fn \in {"invoke", "enumerate"}
    /\ Top(stack[c]).pc = "gated"
GateDone(c) == GateDirect(c) \/ GateNested(c)

GateRetries(c) ==
    IF GateDirect(c) /\ call[c].retries # None
    THEN call[c].retries[1] ELSE ready_retries
GateDelay(c) ==
    IF GateDirect(c) /\ call[c].retry_delay # None
    THEN call[c].retry_delay[1] ELSE ready_retry_delay

SleepsAre(c, secs) ==
    \A i \in 1 .. Len(log[c]) : IsSleep(log[c][i]) => log[c][i].secs = secs

(* An invoke of c has just ended after its request was answered: ret[c] is *)
(* its outcome, lastResp[c] the response, InvokeArgs(c) its arguments.     *)
InvokeTop(c) ==
    /\ stack[c] = <<>>
    /\ call[c].op = "invoke"
    /\ ret[c].kind # "none"
    /\ log[c] # <<>>
    /\ IsCommand(c, Last(log[c]))
InvokeOfProbe(c) == Running(c, "is_idrac_ready", "invoked")
InvokeAnswered(c) ==
    /\ InvokeTop(c) \/ InvokeOfProbe(c)
    /\ lastResp[c] # NoResp
InvokeArgs(c) == IF stack[c] = <<>> THEN call[c] ELSE ProbeInvocation

----------------------------------------------------------------------------
(* C1: a readiness gate with N > 0 attempts whose prober first reports     *)
(* ready on attempt k <= N returns normally after exactly k probes and     *)
(* k-1 sleeps of retry_delay; nothing follows the ready probe.             *)
C1_ReadyAfterKProbes ==
    \A c \in callers :
      (GateDone(c) /\ GateRetries(c) > 0 /\ SawReady(c)) =>
        LET k == Results(c) IN
        /\ ret[c] = ReturnNone
        /\ k <= GateRetries(c)
        /\ Probes(c) = k
        /\ Sleeps(c) = k - 1
        /\ SleepsAre(c, GateDelay(c))
        /\ Len(log[c]) = 3 * k - 1
        /\ IsReadyResult(Last(log[c]))
        /\ \A i \in 1 .. Len(log[c]) - 1 : ~IsReadyResult(log[c][i])

C1_Witness ==
    \E c \in callers :
      /\ GateDone(c)
      /\ GateRetries(c) = 3
      /\ SawReady(c)
      /\ Probes(c) = 3
      /\ Sleeps(c) = 2

(* C2: a readiness gate with N > 0 attempts whose prober never reports     *)
(* ready fails after exactly N probes and N-1 sleeps, the last probe       *)
(* followed by no sleep.                                                   *)
C2_TimeoutAfterNProbes ==
    \A c \in callers :
      (/\ GateDone(c)
       /\ GateRetries(c) > 0
       /\ Results(c) = Probes(c)
       /\ ~SawReady(c)) =>
        /\ ret[c] = TimedOut
        /\ Probes(c) = GateRetries(c)
        /\ Sleeps(c) = GateRetries(c) - 1
        /\ SleepsAre(c, GateDelay(c))
        /\ IsNotReadyResult(Last(log[c]))

C2_Witness ==
    \E c \in callers :
      /\ GateDone(c)
      /\ GateRetries(c) = 3
      /\ ~SawReady(c)
      /\ Results(c) = 3
      /\ ret[c] = TimedOut

(* C3: a readiness gate with retries = 0, passed or taken from the session *)
(* policy, fails at once with the timeout failure: no probe, no sleep.     *)
C3_ZeroRetriesFailsAtOnce ==
    \A c \in callers :
      (GateDone(c) /\ GateRetries(c) = 0) =>
        /\ ret[c] = TimedOut
        /\ log[c] = <<>>

C3_Witness ==
    \E c \in callers :
      /\ GateDirect(c)
      /\ call[c].retries = Some(0)
      /\ ready_retries > 0
      /\ ret[c] = TimedOut

(* C4: with readiness gating on, the request of invoke or enumerate is     *)
(* sent only after a probe of the same call has reported ready, for any    *)
(* session readiness policy.                                               *)
C4_CommandOnlyAfterReadyProbe ==
    \A c \in callers :
      Gated(c) =>
        \A i \in 1 .. Len(log[c]) :
          IsCommand(c, log[c][i]) =>
            \E j \in 1 .. i - 1 : IsReadyResult(log[c][j])

(* C5: when the gate of a gated invoke fails, the invoke ends with that    *)
(* same failure and does not send its request.                             *)
GateFailed(c) == Running(c, "invoke", "gated") /\ ret[c].kind = "raise"

C5_GateFailurePropagates ==
    [][\A c \in callers :
         (GateFailed(c) /\ stack'[c] # stack[c]) =>
           /\ stack'[c] = Pop(stack[c])
           /\ ret'[c] = ret[c]
           /\ log'[c] = log[c]]_vars

C5_Witness ==
    \E c \in callers :
      /\ stack[c] = <<>>
      /\ call[c].op = "invoke"
      /\ call[c].wait_for_idrac
      /\ ret[c] = TimedOut
      /\ \A i \in 1 .. Len(log[c]) : ~IsCommand(c, log[c][i])

C7_MismatchRaisesUnexpected ==
    \A c \in callers :
      (/\ InvokeAnswered(c)
       /\ InvokeArgs(c).check_return_value
       /\ lastResp[c].ReturnValue # RET_ERROR
       /\ InvokeArgs(c).expected_return_value # None
       /\ InvokeArgs(c).expected_return_value # Some(lastResp[c].ReturnValue))
      =>
        ret[c] = Raise(DRACUnexpectedReturnValue(
                     InvokeArgs(c).expected_return_value[1],
                     lastResp[c].ReturnValue))

C7_Witness ==
    \E c \in callers :
      /\ InvokeTop(c)
      /\ lastResp[c] # NoResp
      /\ call[c].check_return_value
      /\ call[c].expected_return_value = Some("0")
      /\ lastResp[c].ReturnValue = "1"
      /\ ret[c].kind = "raise"

(* C8: with validation on, a return code that is not ERROR and equals the  *)
(* supplied expected_return_value makes invoke return the transport's      *)
(* response unchanged.                                                     *)
C8_MatchReturnsResponse ==
    \A c \in callers :
      (/\ InvokeAnswered(c)
       /\ InvokeArgs(c).check_return_value
       /\ lastResp[c].ReturnValue # RET_ERROR
       /\ InvokeArgs(c).expected_return_value = Some(lastResp[c].ReturnValue))
      =>
        ret[c] = Return(lastResp[c])

C8_Witness ==
    \E c \in callers :
      /\ InvokeTop(c)
      /\ lastResp[c] # NoResp
      /\ call[c].check_return_value
      /\ call[c].expected_return_value = Some("1")
      /\ lastResp[c].ReturnValue = "1"
      /\ ret[c].kind = "return"

(* C9: with check_return_value false, invoke returns the transport's       *)
(* response for every return code, ERROR included, and every               *)
(* expected_return_value.                                                  *)
C9_UncheckedReturnsResponse ==
    \A c \in callers :
      (InvokeAnswered(c) /\ ~InvokeArgs(c).check_return_value) =>
        ret[c] = Return(lastResp[c])

C9_Witness ==
    \E c \in callers :
      /\ InvokeTop(c)
      /\ lastResp[c] # NoResp
      /\ ~call[c].check_return_value
      /\ call[c].expected_return_value = Some(RET_SUCCESS)
      /\ lastResp[c].ReturnValue = RET_ERROR
      /\ ret[c].kind = "return"

(* C10: when expected_return_value is not set, invoke returns the          *)
(* response whatever its return code is.                                   *)
C10_UnsetExpectedReturnsResponse ==
    \A c \in callers :
      (InvokeAnswered(c) /\ InvokeArgs(c).expected_return_value = None) =>
        ret[c] = Return(lastResp[c])

----------------------------------------------------------------------------
(* C11: when the readiness gate exhausts its attempts (every probe made    *)
(* returned not ready, or there was none to make), the failure is a        *)
(* DRACOperationFailed carrying the one fixed timeout message, whatever    *)
(* the number of attempts and the probe responses were.                    *)
GateExhausted(c) ==
    /\ GateDone(c)
    /\ GateRetries(c) >= 0
    /\ Results(c) = Probes(c)
    /\ ~SawReady(c)

C11_TimeoutIsOperationFailed ==
    \A c \in callers :
      GateExhausted(c) =>
        /\ ret[c].kind = "raise"
        /\ ret[c].exc.type = "DRACOperationFailed"
        /\ ret[c].exc.drac_messages =
               PyStr("Timed out waiting for the iDRAC to become ready")

C11_Witness ==
    \E c \in callers :
      /\ GateExhausted(c)
      /\ GateRetries(c) = 2
      /\ Probes(c) = 2
      /\ lastResp[c] # NoResp
      /\ lastResp[c].Message # <<>>
      /\ ret[c].kind = "raise"

(* C12: enumerate calls the readiness gate first exactly when              *)
(* wait_for_idrac is true (no probe at all when it is false), then sends   *)
(* one transport enumeration, and what the response contains never makes   *)
(* it raise: an answered enumeration is returned as it is.                 *)
IsEnumeration(ev) == ev.e = "enumerate"

EnumerateHistory(c) ==
    call[c].op = "enumerate" =>
      /\ ~call[c].wait_for_idrac =>
           /\ \A i \in 1 .. Len(log[c]) : IsEnumeration(log[c][i])
           /\ Len(stack[c]) <= 1
      /\ \A i \in 1 .. Len(log[c]) :
           IsEnumeration(log[c][i]) => i = Len(log[c])
      /\ (stack[c] = <<>> /\ ret[c].kind # "none") =>
           \/ /\ log[c] # <<>>
              /\ IsEnumeration(Last(log[c]))
              /\ ret[c] = IF lastResp[c] = NoResp
                          THEN Raise(WSManRequestFailure)
                          ELSE Return(lastResp[c])
           \/ /\ call[c].wait_for_idrac
              /\ \A i \in 1 .. Len(log[c]) : ~IsEnumeration(log[c][i])
              /\ ret[c].kind = "raise"

EnumerateFirstStep(c) ==
    (Running(c, "enumerate", "start") /\ stack'[c] # stack[c]) =>
      /\ log'[c] = log[c]
      /\ IF Top(stack[c]).wait_for_idrac
         THEN /\ Len(stack'[c]) = Len(stack[c]) + 1
              /\ Top(stack'[c]) = WaitFrame(None, None)
         ELSE /\ Len(stack'[c]) = Len(stack[c])
              /\ Top(stack'[c]).fn = "enumerate"

C12_EnumerateGatesThenSends ==
    /\ [](\A c \in callers : EnumerateHistory(c))
    /\ [][\A c \in callers : EnumerateFirstStep(c)]_vars

C12_Witness ==
    \E c \in callers :
      /\ call[c].op = "enumerate"
      /\ ~call[c].wait_for_idrac
      /\ stack[c] = <<>>
      /\ Len(log[c]) = 1
      /\ lastResp[c] # NoResp
      /\ lastResp[c].ReturnValue = RET_ERROR
      /\ ret[c] = Return(lastResp[c])

(* C13: wait_until_idrac_is_ready takes retries and retry_delay from the   *)
(* session when they are omitted and from the call, 0 included, when they  *)
(* are given; no step changes the session's policy.                        *)
PolicyResolved(c) ==
    (Running(c, "wait_until_idrac_is_ready", "start")
       /\ stack'[c] # stack[c]) =>
      LET f == Top(stack[c])
          g == Top(stack'[c])
      IN /\ Len(stack'[c]) = Len(stack[c])
         /\ g.retries = IF f.retries = None
                        THEN ready_retries ELSE f.retries[1]
         /\ g.retry_delay = IF f.retry_delay = None
                            THEN ready_retry_delay ELSE f.retry_delay[1]

C13_PolicyDefaultsAndOverrides ==
    [][/\ \A c \in callers : PolicyResolved(c)
       /\ ready_retries' = ready_retries
       /\ ready_retry_delay' = ready_retry_delay]_vars

C13_Witness ==
    \E c \in callers :
      /\ Running(c, "wait_until_idrac_is_ready", "loop")
      /\ call[c].op = "wait_until_idrac_is_ready"
      /\ call[c].retries = Some(0)
      /\ call[c].retry_delay = None
      /\ ready_retries = 3
      /\ Top(stack[c]).retries = 0
      /\ Top(stack[c]).retry_delay = ready_retry_delay

(* C17: a failure raised by the probe (its return code is ERROR or any     *)
(* code other than SUCCESS) does not count as 'not ready': the gate fails  *)
(* at once with that failure, with no further probe and no sleep, even     *)
(* when attempts remain.                                                   *)
ProbeFailure(resp) ==
    IF resp.ReturnValue = RET_ERROR
    THEN Raise(DRACOperationFailed(PyList(resp.Message)))
    ELSE Raise(DRACUnexpectedReturnValue(RET_SUCCESS, resp.ReturnValue))

C17_ProbeFailureEndsGate ==
    \A c \in callers :
      /\ \A i \in 1 .. Len(log[c]) - 1 :
           IsProbe(log[c][i]) => IsResult(log[c][i + 1])
      /\ (GateDone(c) /\ log[c] # <<>> /\ IsProbe(Last(log[c]))) =>
           /\ ret[c].kind = "raise"
           /\ lastResp[c] # NoResp =>
                /\ lastResp[c].ReturnValue # RET_SUCCESS
                /\ ret[c] = ProbeFailure(lastResp[c])
           /\ Results(c) = Probes(c) - 1
           /\ Sleeps(c) = Probes(c) - 1

C17_Witness ==
    \E c \in callers :
      /\ GateDone(c)
      /\ GateRetries(c) = 3
      /\ Probes(c) = 2
      /\ IsProbe(Last(log[c]))
      /\ lastResp[c] # NoResp
      /\ lastResp[c].ReturnValue = "1"
      /\ ret[c].kind = "raise"

(* C18: the probe never re-enters the readiness gate: at most one          *)
(* wait_until_idrac_is_ready is running in a call stack, and the invoke    *)
(* made by is_idrac_ready is not gated and is return-value validated.      *)
GateDepth(c) ==
    Cardinality({i \in 1 .. Len(stack[c]) :
                   stack[c][i].fn = "wait_until_idrac_is_ready"})

C18_ProbeNeverReentersGate ==
    \A c \in callers :
      /\ GateDepth(c) <= 1
      /\ \A i \in 1 .. Len(stack[c]) - 1 :
           stack[c][i].fn = "is_idrac_ready" =>
             /\ stack[c][i + 1].fn = "invoke"
             /\ ~stack[c][i + 1].wait_for_idrac
             /\ stack[c][i + 1].check_return_value
             /\ i + 1 = Len(stack[c])

C18_Witness ==
    \E c \in callers :
      /\ Len(stack[c]) = 4
      /\ stack[c][1].fn = "invoke"
      /\ stack[c][2].fn = "wait_until_idrac_is_ready"
      /\ stack[c][3].fn = "is_idrac_ready"
      /\ stack[c][4].fn = "invoke"
      /\ stack[c][4].pc = "send"

(* C19: a call of is_idrac_ready sends exactly one transport invocation,   *)
(* GetRemoteServicesAPIStatus on DCIM_LCService with the fixed selectors,  *)
(* and when the return code is SUCCESS it returns true if and only if the  *)
(* MessageID of the response is 'LC061'.                                   *)
ProbeRequest ==
    [e |-> "invoke", resource_uri |-> "DCIM_LCService",
     method |-> "GetRemoteServicesAPIStatus",
     selectors |-> [SystemCreationClassName |-> "DCIM_ComputerSystem",
                    SystemName |-> "DCIM:ComputerSystem",
                    CreationClassName |-> "DCIM_LCService",
                    Name |-> "DCIM:LCService"],
     properties |-> EmptyDict]

C19_ProbeIsOneInvocation ==
    \A c \in callers :
      /\ \A i \in 1 .. Len(log[c]) :
           IsResult(log[c][i]) =>
             /\ i > 1
             /\ log[c][i - 1] = ProbeRequest
      /\ (log[c] # <<>> /\ IsResult(Last(log[c]))) =>
           /\ lastResp[c] # NoResp
           /\ lastResp[c].ReturnValue = RET_SUCCESS
           /\ Last(log[c]).val = (lastResp[c].MessageID = "LC061")
      /\ (call[c].op = "is_idrac_ready" /\ stack[c] = <<>>) =>
           /\ Probes(c) = 1
           /\ log[c][1] = ProbeRequest
           /\ Len(log[c]) <= 2
           /\ (lastResp[c] # NoResp
                 /\ lastResp[c].ReturnValue = RET_SUCCESS) =>
                ret[c] = ReturnBool(lastResp[c].MessageID = "LC061")

C19_Witness ==
    \E c \in callers :
      /\ call[c].op = "is_idrac_ready"
      /\ stack[c] = <<>>
      /\ lastResp[c] # NoResp
      /\ lastResp[c].ReturnValue = RET_SUCCESS
      /\ lastResp[c].MessageID = "LC060"
      /\ ret[c] = ReturnBool(FALSE)

----------------------------------------------------------------------------
(* Reading the outcome of a job operation *)

Finished(c, op) ==
    /\ stack[c] = <<>>
    /\ call[c].op = op
    /\ ret[c].kind # "none"

(* The job queue query of get_job was answered *)
QueryAnswered(c) == "Items" \in DOMAIN lastResp[c]

(* C14: against the controller that records the config jobs it creates,    *)
(* get_job of an id that create_config_job(identity, reboot=False)         *)
(* returned yields the job with that id, whatever the client did in        *)
(* between; get_job fails only when its query was not answered.            *)
C14_CreateThenGetJob ==
    \A c \in callers :
      (Finished(c, "get_job") /\ call[c].job_id \in returned) =>
        IF ret[c].kind = "raise"
        THEN ~QueryAnswered(c)
        ELSE /\ ret[c] # ReturnNone
             /\ ret[c].val.id = call[c].job_id

C14_Witness ==
    \E c \in callers :
      /\ Finished(c, "get_job")
      /\ call[c].job_id = 1
      /\ returned = {1}
      /\ Cardinality(DOMAIN jobs) = 2
      /\ ret[c].kind = "return"
      /\ ret[c] # ReturnNone

(* C15: get_job of an id that is not in the controller's job queue returns *)
(* None and raises nothing; get_job raises only when its query failed.     *)
C15_GetJobAbsentIsNone ==
    \A c \in callers :
      Finished(c, "get_job") =>
        /\ ret[c].kind = "raise" => ~QueryAnswered(c)
        /\ (call[c].job_id \notin DOMAIN jobs /\ QueryAnswered(c)) =>
             ret[c] = ReturnNone

C15_Witness ==
    \E c \in callers :
      /\ Finished(c, "get_job")
      /\ call[c].job_id = 2
      /\ DOMAIN jobs = {1}
      /\ QueryAnswered(c)
      /\ ret[c] = ReturnNone

(* C16: delete_pending_config succeeds only if no config job was submitted *)
(* for the target; after a config job was created for it the request is    *)
(* still sent once the gate has passed, and the controller's rejection     *)
(* comes back as DRACOperationFailed with the controller's messages.       *)
IsDeleteRequest(c, ev) ==
    /\ ev.e = "invoke"
    /\ ev.method = "DeletePendingConfiguration"
    /\ ev.resource_uri = call[c].identity.resource_uri
    /\ ev.properties = [Target |-> call[c].identity.target]

C16_DeleteAfterJobIsRejected ==
    \A c \in callers :
      Finished(c, "delete_pending_config") =>
        /\ ret[c].kind = "return" => ~HasJobFor(call[c].identity.target)
        /\ SawReady(c) => IsDeleteRequest(c, Last(log[c]))
        /\ (HasJobFor(call[c].identity.target)
              /\ IsDeleteRequest(c, Last(log[c]))
              /\ lastResp[c] # NoResp) =>
             ret[c] = Raise(DRACOperationFailed(
                          PyList(<<"Job already submitted">>)))

C16_Witness ==
    \E c \in callers :
      /\ Finished(c, "delete_pending_config")
      /\ HasJobFor(call[c].identity.target)
      /\ IsDeleteRequest(c, Last(log[c]))
      /\ ret[c].kind = "raise"
      /\ ret[c].exc.type = "DRACOperationFailed"

----------------------------------------------------------------------------
(* C21: wait_until_idrac_is_ready returns normally only if a probe of that *)
(* call reported ready; for every integer retries, a call whose probes     *)
(* were all answered and none of them reported ready ends with the         *)
(* readiness timeout.                                                      *)
C21_ReturnsOnlyAfterReadyProbe ==
    \A c \in callers :
      GateDone(c) =>
        /\ ret[c] = ReturnNone => SawReady(c)
        /\ (~SawReady(c) /\ Results(c) = Probes(c)) => ret[c] = TimedOut

(* C22: a gated invoke sends its own request at most once; when it returns *)
(* normally its transport invocations are k >= 1 probes, of which only the *)
(* last reported ready, followed by exactly one request of the method.     *)
CommandsSent(c) == Count(log[c], LAMBDA ev : IsCommand(c, ev))

C22_GatedInvokeSequence ==
    \A c \in callers :
      (call[c].op = "invoke" /\ call[c].wait_for_idrac) =>
        /\ CommandsSent(c) <= 1
        /\ (stack[c] = <<>> /\ ret[c].kind = "return") =>
             /\ Probes(c) >= 1
             /\ Results(c) = Probes(c)
             /\ Len(log[c]) = 3 * Probes(c)
             /\ IsCommand(c, Last(log[c]))
             /\ CommandsSent(c) = 1
             /\ IsReadyResult(log[c][Len(log[c]) - 1])
             /\ \A i \in 1 .. Len(log[c]) - 2 : ~IsReadyResult(log[c][i])

----------------------------------------------------------------------------
(* C23: wait_until_idrac_is_ready ends, for every prober and every integer *)
(* retries; it makes at most max(retries, 0) probes, its remaining-attempt *)
(* counter is retries less the not-ready probes seen so far, and the       *)
(* counter stays at or above 0 when retries is.                            *)
InGate(c) ==
    \E i \in 1 .. Len(stack[c]) : stack[c][i].fn = "wait_until_idrac_is_ready"

GateFrame(c) ==
    stack[c][CHOOSE i \in 1 .. Len(stack[c]) :
                 stack[c][i].fn = "wait_until_idrac_is_ready"]

(* The attempts the gate of c's call is given *)
CallRetries(c) ==
    IF call[c].op = "wait_until_idrac_is_ready" /\ call[c].retries # None
    THEN call[c].retries[1]
    ELSE ready_retries

Max(a, b) == IF a >= b THEN a ELSE b

GateRunning == \E c \in callers : InGate(c)
GateIdle == \A c \in callers : ~InGate(c)

GateBounded ==
    \A c \in callers :
      call[c].op \in {"wait_until_idrac_is_ready", "invoke", "enumerate"} =>
        /\ Probes(c) <= Max(CallRetries(c), 0)
        /\ (InGate(c) /\ GateFrame(c).pc \in {"loop", "sleep"}) =>
             /\ GateFrame(c).retries =
                  CallRetries(c) - Count(log[c], IsNotReadyResult)
             /\ CallRetries(c) >= 0 => GateFrame(c).retries >= 0

C23_GateTerminates == []GateBounded /\ (GateRunning ~> GateIdle)

C23_Witness ==
    \E c \in callers :
      /\ GateDirect(c)
      /\ call[c].retries = Some(2)
      /\ ready_retries = 3
      /\ Probes(c) = 2
      /\ Count(log[c], IsNotReadyResult) = 2
      /\ ret[c] = TimedOut

----------------------------------------------------------------------------
(* C24: when two callers run the gate on one client with their steps       *)
(* interleaved, a step of one caller changes nothing of the other's call;  *)
(* each call's remaining attempts are its own N less its own not-ready     *)
(* probes, it makes at most N probes, and it ends as its own probe         *)
(* results say: ready seen, return; a probe failed, that failure; N        *)
(* not-ready probes, the timeout.                                          *)
NotReadySeen(c) == Count(log[c], IsNotReadyResult)

OwnCounter(c) ==
    /\ Probes(c) <= Max(CallRetries(c), 0)
    /\ (InGate(c) /\ GateFrame(c).pc \in {"loop", "sleep"}) =>
         GateFrame(c).retries = CallRetries(c) - NotReadySeen(c)

EndsAsAlone(c) ==
    GateDirect(c) =>
      IF SawReady(c)
      THEN ret[c] = ReturnNone /\ IsReadyResult(Last(log[c]))
      ELSE IF Results(c) < Probes(c)
           THEN ret[c] = Raise(WSManRequestFailure)
           ELSE ret[c] = TimedOut /\ NotReadySeen(c) = CallRetries(c)

OthersUntouched ==
    \A c \in callers :
      stack'[c] # stack[c] =>
        \A d \in callers \ {c} :
          /\ stack'[d] = stack[d]
          /\ log'[d] = log[d]
          /\ ret'[d] = ret[d]

C24_CallersKeepOwnCounter ==
    /\ [](\A c \in callers : OwnCounter(c) /\ EndsAsAlone(c))
    /\ [][OthersUntouched]_vars

C24_Witness ==
    /\ callers = {1, 2}
    /\ InGate(1) /\ InGate(2)
    /\ NotReadySeen(1) = 1
    /\ GateFrame(1).pc = "sleep"
    /\ NotReadySeen(2) = 0
    /\ GateFrame(2).pc = "loop"
    /\ GateFrame(2).retries = 2

----------------------------------------------------------------------------
(* C25: each commit_pending_*_changes and abandon_pending_*_changes only   *)
(* hands the fixed identity of its service, the target (for BIOS the fixed *)
(* FQDD) and, for commit, the reboot flag to create_config_job or          *)
(* delete_pending_config, with the default scoping system; it sends no     *)
(* other request, commit returns the job id it was given and abandon       *)
(* returns nothing.                                                        *)
SubsystemCall(c) == call[c].op \in CommitMethods \cup AbandonMethods
IsCommit(c) == call[c].op \in CommitMethods

ExpectedService(c) ==
    CASE call[c].op \in {"commit_pending_idrac_changes",
                         "abandon_pending_idrac_changes"} ->
           [uri |-> "DCIM_iDRACCardService", class |-> "DCIM_iDRACCardService",
            name |-> "DCIM:iDRACCardService",
            target |-> call[c].args.idrac_fqdd]
      [] call[c].op \in {"commit_pending_bios_changes",
                         "abandon_pending_bios_changes"} ->
           [uri |-> "DCIM_BIOSService", class |-> "DCIM_BIOSService",
            name |-> "DCIM:BIOSService", target |-> "BIOS.Setup.1-1"]
      [] call[c].op \in {"commit_pending_raid_changes",
                         "abandon_pending_raid_changes"} ->
           [uri |-> "DCIM_RAIDService", class |-> "DCIM_RAIDService",
            name |-> "DCIM:RAIDService",
            target |-> call[c].args.raid_controller]

ExpectedRequest(c) ==
    LET svc == ExpectedService(c) IN
    [e |-> "invoke", resource_uri |-> svc.uri,
     method |-> IF IsCommit(c) THEN "CreateTargetedConfigJob"
                ELSE "DeletePendingConfiguration",
     selectors |-> [SystemCreationClassName |-> "DCIM_ComputerSystem",
                    SystemName |-> "DCIM:ComputerSystem",
                    CreationClassName |-> svc.class, Name |-> svc.name],
     properties |-> IF IsCommit(c)
                    THEN CreateProperties(svc.target, call[c].args.reboot)
                    ELSE [Target |-> svc.target]]

(* The requests of c's call other than the probes of its gate *)
Requests(c) ==
    {i \in 1 .. Len(log[c]) :
       \/ log[c][i].e = "enumerate"
       \/ log[c][i].e = "invoke" /\ ~IsProbe(log[c][i])}

Delegated(c) ==
    Len(stack[c]) >= 2 =>
      LET g == stack[c][2] svc == ExpectedService(c) IN
      /\ g.fn = IF IsCommit(c) THEN "JobManagement.create_config_job"
                ELSE "JobManagement.delete_pending_config"
      /\ g.args.identity.resource_uri = svc.uri
      /\ g.args.identity.cim_creation_class_name = svc.class
      /\ g.args.identity.cim_name = svc.name
      /\ g.args.identity.target = svc.target
      /\ IsCommit(c) => g.args.reboot = call[c].args.reboot

ThinSpecialization(c) ==
    SubsystemCall(c) =>
      /\ Delegated(c)
      /\ Cardinality(Requests(c)) <= 1
      /\ \A i \in Requests(c) : log[c][i] = ExpectedRequest(c)
      /\ (stack[c] = <<>> /\ ret[c].kind = "return") =>
           /\ Cardinality(Requests(c)) = 1
           /\ IF IsCommit(c)
              THEN ret[c] = Return(lastResp[c].JobID)
              ELSE ret[c] = ReturnNone

HandsBack ==
    \A c \in callers :
      (SubsystemCall(c) /\ Len(stack[c]) = 1 /\ stack'[c] = <<>>) =>
        ret'[c] = IF IsCommit(c) \/ ret[c].kind = "raise"
                  THEN ret[c] ELSE ReturnNone

C25_CommitAbandonAreThin ==
    /\ [](\A c \in callers : ThinSpecialization(c))
    /\ [][HandsBack]_vars

C25_Witness ==
    \E c \in callers :
      /\ Finished(c, "commit_pending_raid_changes")
      /\ call[c].args.raid_controller = "RAID.Slot.1-1"
      /\ call[c].args.reboot
      /\ ret[c].kind = "return"
      /\ ret[c].val \in DOMAIN jobs
      /\ jobs[ret[c].val].Target = "RAID.Slot.1-1"
      /\ "RebootJobType" \in DOMAIN Last(log[c]).properties

----------------------------------------------------------------------------
(* C26: list_jobs and get_job only observe the controller: a step of such  *)
(* a call leaves the controller's jobs and their statuses as they are, and *)
(* the call makes one query of the job queue, and no other request but the *)
(* probes of its gate; it does not query again for a job to finish.        *)
Observes(c) == call[c].op \in {"list_jobs", "get_job"}

IsJobQuery(c, ev) ==
    /\ ev.e = "enumerate"
    /\ ev.resource_uri = "DCIM_LifecycleJob"
    /\ ev.filter_query = IF call[c].op = "get_job"
                         THEN Some(call[c].job_id) ELSE None

SingleQuery(c) ==
    Observes(c) =>
      /\ Cardinality(Requests(c)) <= 1
      /\ \A i \in Requests(c) : IsJobQuery(c, log[c][i])
      /\ (stack[c] = <<>> /\ ret[c].kind = "return") =>
           Cardinality(Requests(c)) = 1

LeavesJobsAlone ==
    \A c \in callers :
      (stack'[c] # stack[c] /\ call'[c].op \in {"list_jobs", "get_job"}) =>
        jobs' = jobs

C26_JobQueriesOnlyObserve ==
    /\ [](\A c \in callers : SingleQuery(c))
    /\ [][LeavesJobsAlone]_vars

C26_Witness ==
    \E c \in callers :
      /\ Finished(c, "list_jobs")
      /\ call[c].only_unfinished
      /\ Cardinality(DOMAIN jobs) = 2
      /\ jobs[1].JobStatus = "Completed"
      /\ jobs[2].JobStatus = "Scheduled"
      /\ ret[c].kind = "return"
      /\ ret[c].val = PyList({[id |-> 2, status |-> "Scheduled"]})
====
